---- MODULE Spec2Model ----
(***************************************************************************)
(* A model of streamlit_app.py, the RSS feed reader: the feed parser       *)
(* (fetch_rss_feed), the article fetcher (fetch_full_article, clean_html), *)
(* the collector (collect_articles), the batch collector                   *)
(* (process_persona_file), the display step (display_articles), the export *)
(* (save_to_excel) and the two modes of main.                              *)
(*                                                                         *)
(* Python dicts are TLA+ records whose DOMAIN is the dict's key set, so    *)
(* that `'title' in entry` is "title" \in DOMAIN entry.  Text (article     *)
(* text, messages) is a sequence of tokens; "\n\n".join puts the token     *)
(* ParaSep between two texts.  Short strings that are only copied (titles, *)
(* links, image URLs, names) are TLA+ strings.  The Tags cell, which the   *)
(* code splits and scans, is a sequence of one-character strings.          *)
(***************************************************************************)
EXTENDS Integers, Sequences, FiniteSets, TLC

VARIABLES
    pc,                 \* control location of the run
    mode,               \* main: st.selectbox("Select mode", ...)
    rss_url,            \* main: the text input (single mode); the row's URL (batch)
    df,                 \* process_persona_file: the rows of pd.read_excel
    num_articles,       \* the limit handed to fetch_rss_feed
    row_i,              \* process_persona_file: index of the row of df.iterrows()
    feed_articles,      \* collect_articles: `articles`, what fetch_rss_feed returned
    entry_j,            \* index of the loop over articles (collect / display)
    collected_articles, \* collect_articles: `collected_articles`
    articles,           \* main / process_persona_file: `articles`
    excel,              \* what save_to_excel was handed and laid out
    net,                \* the network calls made so far, in order
    diag,               \* the st.write diagnostics emitted so far (kinds)
    arg,                \* the argument of the function under test (unit specifications)
    ret                 \* its result

vars == <<pc, mode, rss_url, df, num_articles, row_i, feed_articles, entry_j,
          collected_articles, articles, excel, net, diag, arg, ret>>

mainVars == <<mode, rss_url, df, num_articles, row_i, feed_articles, entry_j,
              collected_articles, articles, excel, net, diag>>

-----------------------------------------------------------------------------
(* Bounds of the model *)

MaxFeedLen == 6      \* longest feed handed to fetch_rss_feed on its own
MaxNodes == 3        \* most top-level nodes of a page handed to fetch_full_article
MaxImageFeedLen == 2 \* longest feed of entries with image sources
MaxRows == 2         \* most rows of a persona file

(* Program constants *)

MinArticles == 1     \* st.number_input(min_value=1)
MaxArticles == 5     \* st.number_input(max_value=5)
SingleModeArticles == 5  \* fetch_rss_feed(rss_url, 5) in single mode

-----------------------------------------------------------------------------
(* Generic helpers *)

Min(a, b) == IF a <= b THEN a ELSE b

SeqsUpTo(S, n) == UNION {[1..k -> S] : k \in 0..n}

\* Python's seq[:n] for n >= 0
Take(s, n) == SubSeq(s, 1, Min(n, Len(s)))

RECURSIVE Flatten(_)
Flatten(ss) == IF ss = <<>> THEN <<>> ELSE Head(ss) \o Flatten(Tail(ss))

-----------------------------------------------------------------------------
(* fetch_rss_feed *)

\* What feedparser.parse(url) did: it raised, or it gave a feed with entries.
\* An entry is a dict; the keys it has are its DOMAIN.
ParseRaised == [raised |-> TRUE, entries |-> <<>>]
ParseOk(entries) == [raised |-> FALSE, entries |-> entries]

\* a feed parser that resolves an image per entry (media-content, then
\* enclosure, then the image field)
FeedArticleWithImage(entry) ==
    [title     |-> IF "title" \in DOMAIN entry THEN entry.title ELSE "No title available",
     link      |-> IF "link" \in DOMAIN entry THEN entry.link ELSE "",
     summary   |-> IF "summary" \in DOMAIN entry THEN entry.summary ELSE "No summary available",
     published |-> IF "published" \in DOMAIN entry THEN entry.published ELSE "",
     image_url |-> IF "media_content" \in DOMAIN entry THEN entry.media_content
                   ELSE IF "enclosures" \in DOMAIN entry THEN entry.enclosures
                   ELSE IF "image" \in DOMAIN entry THEN entry.image ELSE ""]

\* lines 25-30: one article dict of the feed parser
FeedArticle(entry) ==
    [title     |-> IF "title" \in DOMAIN entry THEN entry.title ELSE "No title available",
     link      |-> IF "link" \in DOMAIN entry THEN entry.link ELSE "",
     summary   |-> IF "summary" \in DOMAIN entry THEN entry.summary ELSE "No summary available",
     published |-> IF "published" \in DOMAIN entry THEN entry.published ELSE ""]

\* a feed parser that slices from the back: feed.entries[-num_articles:]
fetch_rss_feed_tail(parsed, n) ==
    IF parsed.raised THEN <<>>
    ELSE LET all == parsed.entries
             es == SubSeq(all, Len(all) - Min(n, Len(all)) + 1, Len(all))
         IN [i \in 1..Len(es) |-> FeedArticle(es[i])]

\* lines 20-36: the list fetch_rss_feed returns for a parse outcome
fetch_rss_feed(parsed, n) ==
    IF parsed.raised THEN <<>>
    ELSE LET es == Take(parsed.entries, n)
         IN [i \in 1..Len(es) |-> FeedArticle(es[i])]

\* the dict keys in insertion order (lines 25-30)
FeedKeys == <<"title", "link", "summary", "published">>

-----------------------------------------------------------------------------
(* HTML documents, as BeautifulSoup(html, 'html.parser') holds them: a    *)
(* sequence of nodes; a node is a text node or an element with attributes *)
(* (a set of <<name, value>> pairs) and child nodes.                      *)

TextNode(t) == [tag |-> "#text", text |-> t, attrs |-> {}, kids |-> <<>>]
Elem(tag, attrs, kids) == [tag |-> tag, text |-> "", attrs |-> attrs, kids |-> kids]

HasAttr(node, name) == \E a \in node.attrs : a[1] = name
Attr(node, name) == (CHOOSE a \in node.attrs : a[1] = name)[2]

\* line 51-52: soup(['script', 'style']) ... decompose(): every element with
\* one of the tags is removed with its subtree
RECURSIVE Decompose(_, _)
Decompose(nodes, tags) ==
    IF nodes = <<>> THEN <<>>
    ELSE LET n == Head(nodes)
             rest == Decompose(Tail(nodes), tags)
         IN IF n.tag \in tags THEN rest
            ELSE <<[n EXCEPT !.kids = Decompose(n.kids, tags)]>> \o rest

\* soup.find_all(tag): the elements with the tag, in document order,
\* nested matches included
RECURSIVE find_all(_, _)
find_all(nodes, tag) ==
    IF nodes = <<>> THEN <<>>
    ELSE LET n == Head(nodes)
         IN (IF n.tag = tag THEN <<n>> ELSE <<>>)
            \o find_all(n.kids, tag) \o find_all(Tail(nodes), tag)

\* element.get_text(): the text nodes below the node, concatenated
RECURSIVE get_text(_)
RECURSIVE get_text_all(_)
get_text(node) ==
    IF node.tag = "#text" THEN <<node.text>> ELSE get_text_all(node.kids)
get_text_all(nodes) ==
    IF nodes = <<>> THEN <<>> ELSE get_text(Head(nodes)) \o get_text_all(Tail(nodes))

\* the separator of "\n\n".join
ParaSep == "\n\n"

\* sep.join(texts)
RECURSIVE Join(_, _)
Join(sep, texts) ==
    IF texts = <<>> THEN <<>>
    ELSE IF Len(texts) = 1 THEN texts[1]
    ELSE texts[1] \o <<sep>> \o Join(sep, Tail(texts))

\* lines 48-58
clean_html(html) ==
    LET soup == Decompose(html, {"script", "style"})
        paragraphs == find_all(soup, "p")
    IN Join(ParaSep, [i \in 1..Len(paragraphs) |-> get_text(paragraphs[i])])

-----------------------------------------------------------------------------
(* fetch_full_article *)

\* What requests.get(link) did: it raised (a transport error), or it gave a
\* response with a status and a body.
GetRaised(detail) == [kind |-> "error", detail |-> detail, status |-> 0, body |-> <<>>]
GetResponse(status, body) == [kind |-> "http", detail |-> "", status |-> status, body |-> body]

\* response.raise_for_status() raises HTTPError for a 4xx or 5xx status only
RaisesForStatus(status) == 400 <= status /\ status < 600

ErrPrefix == "Error fetching article content:"

NoException == ""

\* lines 71-82, the body of the try: the exception it ends with (NoException
\* when it reaches the return), and the pair it returns
ArticleTry(resp) ==
    IF resp.kind = "error"
    THEN [exc |-> resp.detail, value |-> <<>>]                          \* line 71
    ELSE IF RaisesForStatus(resp.status)
    THEN [exc |-> "HTTPError", value |-> <<>>]                          \* line 72
    ELSE LET soup == resp.body                                            \* line 73
             full_text == clean_html(soup)                                \* line 76
             imgs == find_all(soup, "img")                                \* line 79
         IN IF imgs = <<>>
            THEN [exc |-> NoException, value |-> <<full_text, "">>]
            ELSE IF HasAttr(imgs[1], "src")                               \* line 80
            THEN [exc |-> NoException, value |-> <<full_text, Attr(imgs[1], "src")>>]
            ELSE [exc |-> "KeyError", value |-> <<>>]

\* a handler that catches the request's exceptions only:
\* `except requests.RequestException`
CaughtRequestOnly(exc) == exc \in {"ConnectionError", "Timeout", "HTTPError"}

\* line 83: `except Exception` catches every exception of the try
Caught(exc) == TRUE

\* lines 70-85: raised is whether an exception leaves the function
fetch_full_article(resp) ==
    LET t == ArticleTry(resp)
    IN IF t.exc = NoException THEN [raised |-> FALSE, value |-> t.value]
       ELSE IF Caught(t.exc)
       THEN [raised |-> FALSE, value |-> << <<ErrPrefix, t.exc>>, "" >>]
       ELSE [raised |-> TRUE, value |-> <<>>]

\* a text that carries the error sentinel
IsErrorText(text) == Len(text) > 0 /\ text[1] = ErrPrefix

-----------------------------------------------------------------------------
(* Values the unit specifications and the run draw their inputs from *)

\* feed entries whose image sources vary: each of media_content, enclosures
\* and image is present or absent (8 combinations)
ImageSourceKeys == {"media_content", "enclosures", "image"}
ImageSourceValue(k) ==
    CASE k = "media_content" -> "http://m/media.png"
      [] k = "enclosures"    -> "http://m/enclosure.png"
      [] k = "image"         -> "http://m/image.png"
      [] k = "title"         -> "T1"
      [] k = "link"          -> "L1"
ImageEntries ==
    {[k \in ks \cup {"title", "link"} |-> ImageSourceValue(k)] : ks \in SUBSET ImageSourceKeys}

\* feed entries with and without the optional fields
E1 == [title |-> "T1", link |-> "L1", summary |-> "S1", published |-> "D1"]
E2 == [summary |-> "S2"]
E3 == [title |-> "T3", link |-> "L3"]
E4 == [title |-> "T4", link |-> "", published |-> "D4"]
PlainEntries == {E1, E2, E3, E4}

\* the nodes pages are made of
NodeP == Elem("p", {}, <<TextNode("a")>>)
NodePScript == Elem("p", {}, <<TextNode("b"), Elem("script", {}, <<TextNode("js")>>)>>)
NodeDiv == Elem("div", {}, <<TextNode("d")>>)
NodeScript == Elem("script", {}, <<TextNode("js")>>)
NodeStyle == Elem("style", {}, <<TextNode("css")>>)
NodeImg == Elem("img", {<<"src", "http://x/y.png">>}, <<>>)
NodeImgNoSrc == Elem("img", {<<"alt", "logo">>}, <<>>)
NodeAImg == Elem("a", {<<"href", "L9">>}, <<Elem("img", {<<"src", "http://x/thumb.png">>}, <<>>)>>)
NodeDivP == Elem("div", {}, <<Elem("p", {}, <<TextNode("c"),
                                Elem("img", {<<"src", "http://x/in-p.png">>}, <<>>)>>)>>)
PageNodes == {NodeP, NodePScript, NodeDiv, NodeScript, NodeStyle, NodeImg,
              NodeImgNoSrc, NodeAImg, NodeDivP}

Statuses == {200, 204, 304, 404, 500}
TransportErrors == {"ConnectionError", "Timeout"}

ArticleResponses ==
    {GetRaised(d) : d \in TransportErrors}
    \cup {GetResponse(st, body) : st \in Statuses, body \in SeqsUpTo(PageNodes, MaxNodes)}

-----------------------------------------------------------------------------
(* Unit specification of fetch_rss_feed: a parse outcome and a limit are   *)
(* drawn, the function is applied.                                         *)

\* save_to_excel has not been called
NoExcel == [called |-> FALSE, columns |-> <<>>, rows |-> <<>>]

IdleMain ==
    /\ mode = "" /\ rss_url = <<>> /\ df = <<>> /\ num_articles = 0 /\ row_i = 0
    /\ feed_articles = <<>> /\ entry_j = 0 /\ collected_articles = <<>>
    /\ articles = <<>> /\ excel = NoExcel /\ net = <<>> /\ diag = <<>>

InitFeed ==
    /\ pc = "feed_call"
    /\ arg \in [parsed : {ParseRaised} \cup {ParseOk(es) : es \in SeqsUpTo(PlainEntries, MaxFeedLen)},
                n : MinArticles..MaxArticles]
    /\ ret = <<>>
    /\ IdleMain

InitFeedImage ==
    /\ pc = "feed_call"
    /\ arg \in [parsed : {ParseOk(es) : es \in SeqsUpTo(ImageEntries, MaxImageFeedLen)},
                n : MinArticles..MaxArticles]
    /\ ret = <<>>
    /\ IdleMain

FeedCall ==
    /\ pc = "feed_call"
    /\ ret' = fetch_rss_feed(arg.parsed, arg.n)
    /\ pc' = "feed_done"
    /\ UNCHANGED <<arg, mainVars>>

SpecFeed == InitFeed /\ [][FeedCall]_vars

SpecFeedImage == InitFeedImage /\ [][FeedCall]_vars

-----------------------------------------------------------------------------
(* Unit specification of fetch_full_article: what requests.get did is      *)
(* drawn, the function is applied.                                         *)

InitArticle ==
    /\ pc = "article_call"
    /\ arg \in ArticleResponses
    /\ ret = <<>>
    /\ IdleMain

ArticleCall ==
    /\ pc = "article_call"
    /\ ret' = fetch_full_article(arg)
    /\ pc' = "article_done"
    /\ UNCHANGED <<arg, mainVars>>

SpecArticle == InitArticle /\ [][ArticleCall]_vars

-----------------------------------------------------------------------------
(* collect_articles, process_persona_file, display_articles, save_to_excel *)

\* the dict keys in insertion order (lines 147-156)
ArticleKeys == <<"From", "Subject", "Message", "Reply", "Timestamp",
                 "Expected Action", "ImageURL", "Subtitle">>
ArticleKeySet == {ArticleKeys[i] : i \in 1..Len(ArticleKeys)}

\* datetime.now().strftime("%d/%m/%Y %H:%M"), line 146: one reading of the
\* clock stands for them all
Now == "02/11/2026 10:00"

\* lines 147-156 with a record that drops the text of a failed fetch
ArticleRecordBlankOnError(article, fetched) ==
    [k \in ArticleKeySet |->
        CASE k = "From"            -> ""
          [] k = "Subject"         -> article.title
          [] k = "Message"         -> IF Len(fetched[1]) > 0 /\ fetched[1][1] = ErrPrefix
                                      THEN <<>> ELSE fetched[1]
          [] k = "Reply"           -> ""
          [] k = "Timestamp"       -> Now
          [] k = "Expected Action" -> ""
          [] k = "ImageURL"        -> fetched[2]
          [] k = "Subtitle"        -> article.summary]

\* lines 147-156: the dict collect_articles appends for an article of the
\* feed and the pair fetch_full_article returned
ArticleRecord(article, fetched) ==
    [k \in ArticleKeySet |->
        CASE k = "From"            -> ""
          [] k = "Subject"         -> article.title
          [] k = "Message"         -> fetched[1]
          [] k = "Reply"           -> ""
          [] k = "Timestamp"       -> Now
          [] k = "Expected Action" -> ""
          [] k = "ImageURL"        -> fetched[2]
          [] k = "Subtitle"        -> article.summary]

\* a check of the key alone: `'link' in article`, whatever the link is
NeedsFetchAnyLink(article) == "link" \in DOMAIN article

\* lines 99 and 144: `article['link']` is truthy
NeedsFetch(article) == "link" \in DOMAIN article /\ article.link # ""

\* line 95
HasDisplayFields(article) ==
    "title" \in DOMAIN article /\ "summary" \in DOMAIN article /\ "link" \in DOMAIN article

\* pd.DataFrame(articles): the columns are the dicts' keys in insertion order
Columns(rows) ==
    IF rows = <<>> THEN <<>>
    ELSE SelectSeq(FeedKeys \o ArticleKeys, LAMBDA k : k \in DOMAIN rows[1])

\* lines 123-127: the sheet save_to_excel writes, one row per dict
save_to_excel(rows) == [called |-> TRUE, columns |-> Columns(rows), rows |-> rows]

\* A cell of the Tags column as pd.read_excel gives it: empty (NaN), a string
\* (a sequence of characters) or a number.
NaNCell == [kind |-> "nan", val |-> <<>>]
StrCell(chars) == [kind |-> "str", val |-> chars]
NumCell(digits) == [kind |-> "num", val |-> digits]

\* pd.notna(cell)
notna(cell) == cell.kind # "nan"

\* str.split(','): the pieces between the commas (one piece when there is none)
RECURSIVE SplitFrom(_, _)
SplitFrom(chars, piece) ==
    IF chars = <<>> THEN <<piece>>
    ELSE IF Head(chars) = "," THEN <<piece>> \o SplitFrom(Tail(chars), <<>>)
    ELSE SplitFrom(Tail(chars), Append(piece, Head(chars)))
split(chars) == SplitFrom(chars, <<>>)

Http == <<"h", "t", "t", "p">>

\* tag.startswith('http')
startswith_http(tag) == Len(tag) >= Len(Http) /\ SubSeq(tag, 1, Len(Http)) = Http

\* line 180 with the last matching tag instead of the first
FeedUrlLast(chars) ==
    LET tags == split(chars)
        hits == SelectSeq(tags, startswith_http)
    IN IF hits = <<>> THEN [found |-> FALSE, url |-> <<>>]
       ELSE [found |-> TRUE, url |-> hits[Len(hits)]]

\* lines 178-181: next((tag for tag in tags if tag.startswith('http')), None),
\* and whether it is truthy
FeedUrl(chars) ==
    LET tags == split(chars)
        hits == SelectSeq(tags, startswith_http)
    IN IF hits = <<>> THEN [found |-> FALSE, url |-> <<>>]
       ELSE [found |-> TRUE, url |-> hits[1]]

\* lines 185-186 with the article's own image kept
StampNameOnly(article, row) == [article EXCEPT !["From"] = row.Name]

\* lines 185-186: the persona's name and image are written into the record
Stamp(article, row) ==
    [article EXCEPT !["From"] = row.Name, !["ImageURL"] = row.Image]

\* the network calls, as the run logs them
ParseCall(url, result) == [op |-> "parse", url |-> url, link |-> "", result |-> result]
GetCall(link, result) == [op |-> "get", url |-> <<>>, link |-> link, result |-> result]

-----------------------------------------------------------------------------
(* What the run draws from: the feeds and pages the network serves, the    *)
(* persona files uploaded.  A persona file has the three required columns  *)
(* Name, Image and Tags; a cell may be empty (NaN) and a Tags cell may     *)
(* hold a number.                                                          *)

UrlA == Http \o <<"A">>
UrlB == Http \o <<"B">>

ServedFeeds == {<<>>, <<E2, E1>>, <<E4, E1, E2, E2, E3, E1>>}
ParseOutcomes == {ParseRaised} \cup {ParseOk(es) : es \in ServedFeeds}

\* a page with three paragraphs and one image
PageA == <<Elem("p", {}, <<TextNode("p1")>>), Elem("p", {}, <<TextNode("p2")>>),
           NodeImg, Elem("p", {}, <<TextNode("p3")>>)>>
ServedResponses == {GetRaised("ConnectionError"), GetResponse(200, PageA)}

\* the value of an empty Name or Image cell
NaN == "NaN"

RowAnn == [Name |-> "Ann", Image |-> "ann.png",
           Tags |-> StrCell(<<"x", ",">> \o UrlB \o <<",">> \o UrlA \o <<",", "y">>)]
RowNoUrl == [Name |-> "Bob", Image |-> "bob.png",
             Tags |-> StrCell(<<"x">> \o Http \o <<",", " ">> \o UrlA)]
RowNoTags == [Name |-> "Cat", Image |-> "cat.png", Tags |-> NaNCell]
RowNumTags == [Name |-> "Dan", Image |-> "dan.png", Tags |-> NumCell(<<"7">>)]
RowNoName == [Name |-> NaN, Image |-> NaN, Tags |-> StrCell(UrlA)]
PersonaRows == {RowAnn, RowNoUrl, RowNoTags, RowNumTags, RowNoName}

-----------------------------------------------------------------------------
(* The run of main after "Fetch Articles" is pressed *)

Init ==
    /\ pc = "main"
    /\ \/ /\ mode = "Single Mode"
          /\ rss_url = UrlA
          /\ df = <<>>
          /\ num_articles = 0
       \/ /\ mode = "Batch Mode"
          /\ rss_url = <<>>
          /\ df \in SeqsUpTo(PersonaRows, MaxRows)
          /\ num_articles \in MinArticles..MaxArticles
    /\ row_i = 0
    /\ feed_articles = <<>>
    /\ entry_j = 0
    /\ collected_articles = <<>>
    /\ articles = <<>>
    /\ excel = NoExcel
    /\ net = <<>>
    /\ diag = <<>>
    /\ arg = <<>>
    /\ ret = <<>>

\* the diagnostic fetch_rss_feed writes (line 35)
FeedDiag(parsed) == IF parsed.raised THEN <<"feed_error">> ELSE <<>>

\* the diagnostic fetch_full_article writes (line 84)
ArticleDiag(resp) == IF ArticleTry(resp).exc # NoException THEN <<"article_error">> ELSE <<>>

\* lines 205-219: single mode parses the feed once, then displays or reports
SingleFetch ==
    /\ pc = "main"
    /\ mode = "Single Mode"
    /\ \E parsed \in ParseOutcomes :
          LET as == fetch_rss_feed(parsed, SingleModeArticles)
          IN /\ articles' = as
             /\ net' = Append(net, ParseCall(rss_url, as))
             /\ IF as # <<>>
                THEN /\ pc' = "display"
                     /\ entry_j' = 1
                     /\ diag' = diag \o FeedDiag(parsed) \o <<"showing">>
                ELSE /\ pc' = "done"
                     /\ entry_j' = entry_j
                     /\ diag' = diag \o FeedDiag(parsed) \o <<"none_found">>
    /\ UNCHANGED <<mode, rss_url, df, num_articles, row_i, feed_articles,
                   collected_articles, excel, arg, ret>>

\* lines 94-110: one iteration of the loop of display_articles
DisplayArticle ==
    /\ pc = "display"
    /\ entry_j <= Len(articles)
    /\ LET article == articles[entry_j]
       IN IF HasDisplayFields(article)
          THEN IF NeedsFetch(article)
               THEN \E resp \in ServedResponses, shown \in BOOLEAN :
                       LET fetched == fetch_full_article(resp).value
                       IN /\ net' = Append(net, GetCall(article.link, fetched))
                          /\ diag' = diag \o ArticleDiag(resp)
                                     \o (IF fetched[2] # "" /\ ~shown
                                         THEN <<"image_error">> ELSE <<>>)
               ELSE UNCHANGED <<net, diag>>
          ELSE /\ diag' = Append(diag, "missing_fields")
               /\ net' = net
    /\ entry_j' = entry_j + 1
    /\ UNCHANGED <<pc, mode, rss_url, df, num_articles, row_i, feed_articles,
                   collected_articles, articles, excel, arg, ret>>

\* lines 211 and 234: after the display the list is handed to save_to_excel
SaveToExcel ==
    /\ pc = "display"
    /\ entry_j > Len(articles)
    /\ excel' = save_to_excel(articles)
    /\ pc' = "done"
    /\ UNCHANGED <<mode, rss_url, df, num_articles, row_i, feed_articles, entry_j,
                   collected_articles, articles, net, diag, arg, ret>>

\* lines 228, 173-174: batch mode reads the file and starts the loop over its rows
ReadPersonaFile ==
    /\ pc = "main"
    /\ mode = "Batch Mode"
    /\ articles' = <<>>
    /\ row_i' = 1
    /\ pc' = "rows"
    /\ UNCHANGED <<mode, rss_url, df, num_articles, feed_articles, entry_j,
                   collected_articles, excel, net, diag, arg, ret>>

\* lines 176-182 and 188-191: one row up to the call of collect_articles, or
\* to the end of the iteration when the row is skipped, or to the
\* AttributeError of `.split` on a Tags cell that is no string
ProcessRow ==
    /\ pc = "rows"
    /\ row_i <= Len(df)
    /\ LET row == df[row_i]
       IN IF "Tags" \in DOMAIN row /\ notna(row.Tags)
          THEN IF row.Tags.kind # "str"
               THEN /\ pc' = "raised"
                    /\ UNCHANGED <<rss_url, row_i, diag>>
               ELSE LET found == FeedUrl(row.Tags.val)
                    IN IF found.found
                       THEN /\ rss_url' = found.url
                            /\ diag' = Append(diag, "fetching")
                            /\ pc' = "collect"
                            /\ row_i' = row_i
                       ELSE /\ diag' = Append(diag, "no_url")
                            /\ row_i' = row_i + 1
                            /\ UNCHANGED <<pc, rss_url>>
          ELSE /\ diag' = Append(diag, "skip_row")
               /\ row_i' = row_i + 1
               /\ UNCHANGED <<pc, rss_url>>
    /\ UNCHANGED <<mode, df, num_articles, feed_articles, entry_j,
                   collected_articles, articles, excel, net, arg, ret>>

\* lines 140-141: collect_articles parses the feed
CollectFetchFeed ==
    /\ pc = "collect"
    /\ \E parsed \in ParseOutcomes :
          LET as == fetch_rss_feed(parsed, num_articles)
          IN /\ feed_articles' = as
             /\ net' = Append(net, ParseCall(rss_url, as))
             /\ diag' = diag \o FeedDiag(parsed)
    /\ collected_articles' = <<>>
    /\ entry_j' = 1
    /\ pc' = "collect_loop"
    /\ UNCHANGED <<mode, rss_url, df, num_articles, row_i, articles, excel, arg, ret>>

\* lines 143-158: one iteration of the loop of collect_articles
CollectArticle ==
    /\ pc = "collect_loop"
    /\ entry_j <= Len(feed_articles)
    /\ LET article == feed_articles[entry_j]
       IN IF NeedsFetch(article)
          THEN \E resp \in ServedResponses :
                  LET fetched == fetch_full_article(resp).value
                  IN /\ net' = Append(net, GetCall(article.link, fetched))
                     /\ diag' = diag \o ArticleDiag(resp)
                     /\ collected_articles' =
                            Append(collected_articles, ArticleRecord(article, fetched))
          ELSE /\ diag' = Append(diag, "missing_link")
               /\ UNCHANGED <<net, collected_articles>>
    /\ entry_j' = entry_j + 1
    /\ UNCHANGED <<pc, mode, rss_url, df, num_articles, row_i, feed_articles,
                   articles, excel, arg, ret>>

\* lines 160 and 183-187: collect_articles returns, the row's records are
\* stamped and appended, the loop goes to the next row
CollectReturn ==
    /\ pc = "collect_loop"
    /\ entry_j > Len(feed_articles)
    /\ articles' = articles \o [i \in 1..Len(collected_articles) |->
                                    Stamp(collected_articles[i], df[row_i])]
    /\ row_i' = row_i + 1
    /\ pc' = "rows"
    /\ UNCHANGED <<mode, rss_url, df, num_articles, feed_articles, entry_j,
                   collected_articles, excel, net, diag, arg, ret>>

\* lines 193 and 229-242: process_persona_file returns, main displays or reports
ProcessReturn ==
    /\ pc = "rows"
    /\ row_i > Len(df)
    /\ IF articles # <<>>
       THEN /\ pc' = "display"
            /\ entry_j' = 1
            /\ diag' = Append(diag, "showing")
       ELSE /\ pc' = "done"
            /\ entry_j' = entry_j
            /\ diag' = Append(diag, "none_found")
    /\ UNCHANGED <<mode, rss_url, df, num_articles, row_i, feed_articles,
                   collected_articles, articles, excel, net, arg, ret>>

Next ==
    \/ SingleFetch
    \/ DisplayArticle
    \/ SaveToExcel
    \/ ReadPersonaFile
    \/ ProcessRow
    \/ CollectFetchFeed
    \/ CollectArticle
    \/ CollectReturn
    \/ ProcessReturn

Spec == Init /\ [][Next]_vars

-----------------------------------------------------------------------------
(* Claims about fetch_rss_feed *)

FeedRecordKeys == {"title", "link", "summary", "published"}

\* the record is built from the entry: each field is the entry's when the
\* entry has it, the documented default otherwise
BuiltFrom(rec, entry) ==
    /\ DOMAIN rec = FeedRecordKeys
    /\ ("title" \in DOMAIN entry => rec.title = entry.title)
    /\ ("title" \notin DOMAIN entry => rec.title = "No title available")
    /\ ("link" \in DOMAIN entry => rec.link = entry.link)
    /\ ("link" \notin DOMAIN entry => rec.link = "")
    /\ ("summary" \in DOMAIN entry => rec.summary = entry.summary)
    /\ ("summary" \notin DOMAIN entry => rec.summary = "No summary available")
    /\ ("published" \in DOMAIN entry => rec.published = entry.published)
    /\ ("published" \notin DOMAIN entry => rec.published = "")

\* C1: for a feed of n entries and a limit in 1..5, fetch_rss_feed returns
\* exactly min(n, limit) records and record i is built from the i-th entry of
\* the feed: no padding, no reordering, no skipped entry.
C1_FrontOfFeed ==
    (pc = "feed_done" /\ ~arg.parsed.raised) =>
        LET es == arg.parsed.entries
        IN /\ Len(ret) = Min(Len(es), arg.n)
           /\ \A i \in 1..Len(ret) : BuiltFrom(ret[i], es[i])

\* a feed longer than the limit, whose cut-off entry differs from the last kept one
C1_Witness ==
    /\ pc = "feed_done"
    /\ ~arg.parsed.raised
    /\ Len(arg.parsed.entries) = 6
    /\ arg.n = 5
    /\ Len(ret) = 5
    /\ arg.parsed.entries[5] # arg.parsed.entries[6]
    /\ arg.parsed.entries[1] # arg.parsed.entries[2]

\* the image the priority media-content > enclosure > image field resolves to
PriorityImage(entry) ==
    IF "media_content" \in DOMAIN entry THEN entry.media_content
    ELSE IF "enclosures" \in DOMAIN entry THEN entry.enclosures
    ELSE IF "image" \in DOMAIN entry THEN entry.image
    ELSE ""

-----------------------------------------------------------------------------
(* Claims about fetch_full_article *)

\* the first <img> of the page, in document order, has no src attribute
FirstImgLacksSrc(body) ==
    LET imgs == find_all(body, "img")
    IN imgs # <<>> /\ ~HasAttr(imgs[1], "src")

\* the text below the nodes, the subtrees of <script> and <style> left out
RECURSIVE VisibleText(_)
VisibleText(nodes) ==
    IF nodes = <<>> THEN <<>>
    ELSE LET n == Head(nodes)
         IN (CASE n.tag = "#text" -> <<n.text>>
               [] n.tag \in {"script", "style"} -> <<>>
               [] OTHER -> VisibleText(n.kids))
            \o VisibleText(Tail(nodes))

\* the visible text of each <p> that is not inside a <script> or <style>,
\* in document order
RECURSIVE ParagraphTexts(_)
ParagraphTexts(nodes) ==
    IF nodes = <<>> THEN <<>>
    ELSE LET n == Head(nodes)
         IN (CASE n.tag \in {"script", "style"} -> <<>>
               [] n.tag = "p" -> <<VisibleText(n.kids)>> \o ParagraphTexts(n.kids)
               [] OTHER -> ParagraphTexts(n.kids))
            \o ParagraphTexts(Tail(nodes))

Is2xx(status) == 200 <= status /\ status < 300

\* C2 as stated: fetch_full_article never raises, and on a transport error, a
\* non-2xx status or an exception while processing the page it returns the
\* error sentinel as text and "" as image_url.
C2_Original ==
    pc = "article_done" =>
        /\ ~ret.raised
        /\ (arg.kind = "error" \/ ~Is2xx(arg.status) \/ FirstImgLacksSrc(arg.body))
              => (IsErrorText(ret.value[1]) /\ ret.value[2] = "")

\* C2 as amended: fetch_full_article never raises, and on a transport error,
\* a 4xx or 5xx status or an exception while processing the page it returns
\* the error sentinel as text and "" as image_url.
C2_NeverRaises ==
    pc = "article_done" =>
        /\ ~ret.raised
        /\ (arg.kind = "error"
            \/ (400 <= arg.status /\ arg.status <= 599)
            \/ FirstImgLacksSrc(arg.body))
              => (IsErrorText(ret.value[1]) /\ ret.value[2] = "")

\* a page answered with 200 whose processing raises (its first <img> has no
\* src), reported as the sentinel
C2_Witness ==
    /\ pc = "article_done"
    /\ arg.kind = "http"
    /\ arg.status = 200
    /\ FirstImgLacksSrc(arg.body)
    /\ ~ret.raised
    /\ IsErrorText(ret.value[1])

\* C3: on a 2xx response the result is not the error sentinel: the text is the
\* text of every <p> in document order joined by a blank line, script and
\* style text excluded ("" without <p>), and image_url is the src of the first
\* <img> of the document, "" when there is none.
C3_Original ==
    (pc = "article_done" /\ arg.kind = "http" /\ Is2xx(arg.status)) =>
        /\ ~ret.raised
        /\ ~IsErrorText(ret.value[1])
        /\ ret.value[1] = Join(ParaSep, ParagraphTexts(arg.body))
        /\ LET imgs == find_all(arg.body, "img")
           IN /\ imgs = <<>> => ret.value[2] = ""
              /\ (imgs # <<>> /\ HasAttr(imgs[1], "src")) => ret.value[2] = Attr(imgs[1], "src")

-----------------------------------------------------------------------------
(* Claims about the run: collect_articles, process_persona_file, main *)

\* the positions of the feed parses in the log of network calls
ParseIdx(log) == SelectSeq([i \in 1..Len(log) |-> i], LAMBDA i : log[i].op = "parse")

\* the calls that follow the k-th parse, up to the next parse
SegmentGets(log, k) ==
    LET ps == ParseIdx(log)
        last == IF k < Len(ps) THEN ps[k + 1] - 1 ELSE Len(log)
    IN SubSeq(log, ps[k] + 1, last)

\* the articles of a feed that have a non-empty link
LinkedOf(feed) == SelectSeq(feed, LAMBDA a : a.link # "")

\* C4: collect_articles makes exactly one record for each feed entry with a
\* non-empty link, in entry order, none for an entry with an empty link,
\* whether or not the fetch succeeded; Subject is the title, Subtitle the
\* summary, Message and ImageURL the pair fetch_full_article returned for the
\* link, and From, Reply and Expected Action are "".
C4_OneRecordPerLink ==
    pc = "collect_loop" =>
        LET ps == ParseIdx(net)
            gets == SegmentGets(net, Len(ps))
            seen == SubSeq(feed_articles, 1, entry_j - 1)
            linked == LinkedOf(seen)
        IN /\ feed_articles = net[ps[Len(ps)]].result
           /\ Len(collected_articles) = Len(linked)
           /\ Len(gets) = Len(linked)
           /\ \A k \in 1..Len(linked) :
                 LET rec == collected_articles[k]
                 IN /\ DOMAIN rec = ArticleKeySet
                    /\ gets[k].op = "get"
                    /\ gets[k].link = linked[k].link
                    /\ rec["Subject"] = linked[k].title
                    /\ rec["Subtitle"] = linked[k].summary
                    /\ rec["Message"] = gets[k].result[1]
                    /\ rec["ImageURL"] = gets[k].result[2]
                    /\ rec["From"] = ""
                    /\ rec["Reply"] = ""
                    /\ rec["Expected Action"] = ""

\* collect_articles about to return for a feed with an entry without a link,
\* a failed fetch and a fetch that succeeded
C4_Witness ==
    /\ pc = "collect_loop"
    /\ entry_j > Len(feed_articles)
    /\ Len(feed_articles) > Len(collected_articles)
    /\ Len(collected_articles) = 2
    /\ IsErrorText(collected_articles[1]["Message"])
    /\ ~IsErrorText(collected_articles[2]["Message"])

\* The feed URL of a Tags string, stated on its characters: a token starts at
\* the first character and after each comma; the URL is the first token that
\* begins with "http", up to the next comma.
TokenStarts(chars) == {k \in 1..Len(chars) : k = 1 \/ chars[k - 1] = ","}
HttpTokenStarts(chars) ==
    {k \in TokenStarts(chars) :
        /\ k + 3 <= Len(chars)
        /\ chars[k] = "h" /\ chars[k + 1] = "t" /\ chars[k + 2] = "t" /\ chars[k + 3] = "p"}
TokenEnd(chars, k) ==
    CHOOSE e \in k..Len(chars) :
        /\ \A i \in k..e : chars[i] # ","
        /\ e = Len(chars) \/ chars[e + 1] = ","
FirstHttpToken(chars) ==
    LET k == CHOOSE m \in HttpTokenStarts(chars) : \A o \in HttpTokenStarts(chars) : m <= o
    IN SubSeq(chars, k, TokenEnd(chars, k))

\* the row has a feed URL: its Tags is a string with a token that begins with "http"
RowHasUrl(row) == row.Tags.kind = "str" /\ HttpTokenStarts(row.Tags.val) # {}

\* the row is skipped: its Tags is missing, or a string without such a token
RowIsSkipped(row) ==
    \/ row.Tags.kind = "nan"
    \/ row.Tags.kind = "str" /\ HttpTokenStarts(row.Tags.val) = {}

\* the rows whose feed has been parsed by now
RowsParsed ==
    IF pc = "collect_loop" THEN SubSeq(df, 1, row_i)
    ELSE IF row_i = 0 THEN <<>>
    ELSE SubSeq(df, 1, row_i - 1)

\* the feed URLs of the rows that have one, in row order
UrlsOf(rows) ==
    LET withUrl == SelectSeq(rows, RowHasUrl)
    IN [k \in 1..Len(withUrl) |-> FirstHttpToken(withUrl[k].Tags.val)]

ParsedUrls == LET ps == ParseIdx(net) IN [k \in 1..Len(ps) |-> net[ps[k]].url]

\* the feeds parsed so far are those of the rows gone through that have a
\* feed URL, in row order, each under its first token that begins with "http"
C5_ParsedAreUrlRows ==
    mode = "Batch Mode" => ParsedUrls = UrlsOf(RowsParsed)

\* the step taken on a skipped row: no network call, no record, next row
C5_SkipStep ==
    (pc = "rows" /\ row_i <= Len(df) /\ RowIsSkipped(df[row_i]))
        => /\ net' = net
           /\ articles' = articles
           /\ row_i' = row_i + 1
           /\ pc' = "rows"

\* C5: the feed URL of a row is the first comma-separated token of Tags that
\* starts with "http"; a row whose Tags has no such token or is missing is
\* skipped: no feed parse, no article fetch, no record, and the rows after it
\* are still processed.
C5_UrlTokenOrSkip == [](C5_ParsedAreUrlRows) /\ [][C5_SkipStep]_vars

\* a skipped row followed by a row whose feed, found under the first of its
\* two URL tokens, gave records
C5_Witness ==
    /\ pc = "rows"
    /\ df = <<RowNoUrl, RowAnn>>
    /\ row_i = 3
    /\ ParsedUrls = <<UrlB>>
    /\ articles # <<>>

\* the records the log of network calls accounts for: for the k-th parse, one
\* record per linked article of the feed, with the text the fetch returned and
\* the name and image of the k-th row that has a feed URL
RecordsOfSegment(k, row) ==
    LET ps == ParseIdx(net)
        linked == LinkedOf(net[ps[k]].result)
        gets == SegmentGets(net, k)
    IN [j \in 1..Len(linked) |->
          [key \in ArticleKeySet |->
              CASE key = "From"      -> row.Name
                [] key = "Subject"   -> linked[j].title
                [] key = "Message"   -> gets[j].result[1]
                [] key = "Timestamp" -> Now
                [] key = "ImageURL"  -> row.Image
                [] key = "Subtitle"  -> linked[j].summary
                [] OTHER             -> ""]]

ProcessReturned ==
    /\ mode = "Batch Mode"
    /\ \/ pc = "rows" /\ row_i > Len(df)
       \/ pc \in {"display", "done"}

\* C6: the output of process_persona_file is the concatenation, in row order,
\* of the records of each row that has a feed URL, in entry order, each with
\* From the row's Name and ImageURL the row's Image; a row whose feed fails
\* to parse or is empty contributes nothing and changes no other row's records.
C6_ConcatenationInRowOrder ==
    ProcessReturned =>
        LET withUrl == SelectSeq(df, RowHasUrl)
            ps == ParseIdx(net)
        IN /\ Len(ps) = Len(withUrl)
           /\ \A k \in 1..Len(ps) : Len(SegmentGets(net, k)) = Len(LinkedOf(net[ps[k]].result))
           /\ articles = Flatten([k \in 1..Len(ps) |-> RecordsOfSegment(k, withUrl[k])])

\* two rows with a feed URL: the feed of the first gave nothing, the second
\* row's records are the output
C6_Witness ==
    /\ ProcessReturned
    /\ df = <<RowAnn, RowNoName>>
    /\ Len(ParseIdx(net)) = 2
    /\ net[1].result = <<>>
    /\ Len(articles) = 2
    /\ articles[1]["From"] = NaN

\* C7: a malformed persona row (Tags missing or no comma-separated string, no
\* URL token, Name or Image missing) never aborts the batch: no exception
\* leaves process_persona_file, the row is skipped and gives no record.
C7_Original ==
    mode = "Batch Mode" =>
        /\ pc # "raised"
        /\ \A i \in 1..Len(articles) :
              articles[i]["From"] # NaN /\ articles[i]["ImageURL"] # NaN

\* C9: in single mode the rows handed to save_to_excel are ArticleRecords, one
\* per feed entry with a non-empty link, with the columns Subject, Message,
\* Reply, Timestamp, Expected Action, ImageURL, Subtitle (optionally after
\* From), Message being the article text and ImageURL the extracted image.
C9_Original ==
    (mode = "Single Mode" /\ excel.called) =>
        LET linked == LinkedOf(net[1].result)
            gets == SegmentGets(net, 1)
        IN /\ excel.columns \in {ArticleKeys, Tail(ArticleKeys)}
           /\ Len(excel.rows) = Len(linked)
           /\ \A k \in 1..Len(linked) :
                 /\ excel.rows[k]["Subject"] = linked[k].title
                 /\ excel.rows[k]["Message"] = gets[k].result[1]
                 /\ excel.rows[k]["ImageURL"] = gets[k].result[2]

\* C10: in a complete run each feed URL is parsed exactly once (single mode)
\* or once per persona row that has a URL token (batch mode), each feed entry
\* with a non-empty link causes exactly one GET of that link, an entry with an
\* empty link none, and no parse or GET is repeated.
C10_EachCallOnce ==
    pc = "done" =>
        LET ps == ParseIdx(net)
        IN /\ net # <<>> => net[1].op = "parse"
           /\ mode = "Single Mode" => ParsedUrls = <<rss_url>>
           /\ mode = "Batch Mode" => ParsedUrls = UrlsOf(df)
           /\ \A k \in 1..Len(ps) :
                 LET linked == LinkedOf(net[ps[k]].result)
                     gets == SegmentGets(net, k)
                 IN /\ Len(gets) = Len(linked)
                    /\ \A j \in 1..Len(linked) : gets[j].link = linked[j].link

\* a batch run that ended after collection, display and export, with two
\* feeds parsed, a feed entry without a link and a failed GET
C10_Witness ==
    /\ pc = "done"
    /\ mode = "Batch Mode"
    /\ excel.called
    /\ Len(ParseIdx(net)) = 2
    /\ \E i \in 1..Len(net) : net[i].op = "get" /\ IsErrorText(net[i].result[1])
    /\ \E i \in 1..Len(net) : net[i].op = "parse" /\ Len(LinkedOf(net[i].result)) < Len(net[i].result)

====
